---- MODULE Spec2Model ----
(***************************************************************************)
(* A model of src/lib/createStreamingSVGRenderer.js: the streaming SVG     *)
(* ingestion pipeline (loadSVG, handleElementStart, handleElementEnd,      *)
(* addNode, addBorder), the transform parser (createTransformParser), the  *)
(* highlight queries (getHighlightedNodes, getHighlightedLinks), the        *)
(* subgraph extraction (showRelated) and the subgraph mode (focusNode,     *)
(* exitSubgraphMode and the callbacks of subgraphVisualizer.dispose).      *)
(*                                                                         *)
(* Conventions.                                                            *)
(*  - A JavaScript string that the code indexes (an id) is a sequence of   *)
(*    one-character strings: "_a" is <<"_", "a">>, '' is <<>>.             *)
(*  - An attribute that the code splits into tokens (viewBox, transform)   *)
(*    is the sequence of its tokens; a token is a record saying what       *)
(*    Number.parseFloat makes of it.                                       *)
(*  - A thrown exception is the "err" field of what a handler returns; the *)
(*    state a handler had written before it threw is kept.                 *)
(*  - A JavaScript Set or Map that the code iterates is a sequence without *)
(*    repetitions, in insertion order.                                     *)
(***************************************************************************)
EXTENDS Integers, Sequences, FiniteSets, TLC

VARIABLES
  loader,            \* the streaming source: status, open elements, what it delivered
  graph,             \* loader.getGraph(): the full link graph, a sequence of links
  viewBox,           \* let viewBox (line 29)
  currentTransform,  \* createTransformParser(): isDirty, tx, ty, transformStack
  positions,         \* let positions = [] (line 31)
  nodeNameToUI,      \* Map name -> ui (line 33)
  nodesByComponent,  \* Map componentId -> Set of names (line 34)
  complimentaryColor,\* Map clusterId -> color (line 35)
  clusterColors,     \* Map clusterId -> color (line 36)
  boundariesFill,    \* the polygons handed to the PolyLineCollection (line 25)
  subgraphVisualizer,\* let subgraphVisualizer (line 39)
  paused,            \* pointerEvents.setPaused(..)
  busOn,             \* the bus handlers are registered (lines 64-66, 177-179)
  disposeCallbacks,  \* completion callbacks of subgraphVisualizer.dispose(..) still to come
  ret                \* the last call: its operation, arguments, result and error

vars == <<loader, graph, viewBox, currentTransform, positions, nodeNameToUI,
          nodesByComponent, complimentaryColor, clusterColors, boundariesFill,
          subgraphVisualizer, paused, busOn, disposeCallbacks, ret>>

----------------------------------------------------------------------------
(* Bounds of the model.                                                    *)

MaxLoads == 2      \* loadSVG calls in one behaviour
MaxDepth == 2      \* open elements of the streamed document
MaxNodes == 2      \* stored NodeRecords
MaxBorders == 2    \* stored polygons
MaxStack == 3      \* depth of the transform stack driven directly
MaxEvents == 5     \* element events delivered in one behaviour

----------------------------------------------------------------------------
(* JavaScript values.                                                      *)

NoError == "none"

\* Tokens of a split attribute string.
Num(n) == [k |-> "num", v |-> n]          \* "10"
Junk == [k |-> "junk", v |-> 0]           \* "x", "": parseFloat gives NaN
NumSeq(s) == [i \in DOMAIN s |-> Num(s[i])]

\* Number.parseFloat of a token: a finite number, or NaN.
NaN == [finite |-> FALSE, v |-> 0]
ParseFloat(tok) == IF tok.k = "num" THEN [finite |-> TRUE, v |-> tok.v] ELSE NaN

\* function finiteNumber(x)
finiteNumber(x) == x.finite

RECURSIVE FilterFinite(_)
FilterFinite(s) ==
  IF s = <<>> THEN <<>>
  ELSE IF finiteNumber(Head(s)) THEN <<Head(s).v>> \o FilterFinite(Tail(s))
  ELSE FilterFinite(Tail(s))

\* str.split(sep).map((x) => Number.parseFloat(x)).filter(finiteNumber)
ParseFiniteTokens(toks) == FilterFinite([i \in DOMAIN toks |-> ParseFloat(toks[i])])

\* An absent (or empty) attribute.
NoAttr == [fn |-> "", toks |-> <<>>]
Matrix(s) == [fn |-> "matrix", toks |-> s]

Range(s) == {s[i] : i \in DOMAIN s}

\* Set.add / Map.has on an insertion-ordered Set
SetAdd(s, x) == IF x \in Range(s) THEN s ELSE Append(s, x)

\* Map.set
MapSet(m, k, v) == [x \in DOMAIN m \cup {k} |-> IF x = k THEN v ELSE m[x]]
EmptyMap == <<>>

----------------------------------------------------------------------------
(* createTransformParser (lines 443-496).                                  *)

NewTransformParser == [isDirty |-> FALSE, tx |-> 0, ty |-> 0, transformStack |-> <<>>]

\* parseTransform(str): the coefficients, or a thrown error.
parseTransform(str) ==
  IF ~(str.fn = "matrix" /\ str.toks # <<>>)
  THEN [err |-> "MalformedTransform", val |-> <<>>]    \* Unknown transformation record
  ELSE LET coefficients == ParseFiniteTokens(str.toks)
       IN IF Len(coefficients) # 6
          THEN [err |-> "MalformedTransform", val |-> <<>>]  \* Only matrix(a,b,c,d,e,f)
          ELSE [err |-> NoError, val |-> coefficients]

\* pushTransform(transformStr): isDirty is set before parseTransform may throw.
pushTransform(ct, transformStr) ==
  LET p == parseTransform(transformStr)
      dirty == [ct EXCEPT !.isDirty = TRUE]
  IN IF p.err # NoError
     THEN [ct |-> dirty, err |-> p.err]
     ELSE [ct |-> [dirty EXCEPT !.transformStack = Append(@, p.val)], err |-> NoError]

popTransformKeepsCache(ct) ==
  IF Len(ct.transformStack) = 0
  THEN [ct |-> ct, err |-> "NothingToPop"]
  ELSE [ct |-> [ct EXCEPT !.transformStack = SubSeq(@, 1, Len(@) - 1)],
        err |-> NoError]

\* popTransform()
popTransform(ct) ==
  IF Len(ct.transformStack) = 0
  THEN [ct |-> ct, err |-> "NothingToPop"]
  ELSE [ct |-> [ct EXCEPT !.transformStack = SubSeq(@, 1, Len(@) - 1),
                          !.isDirty = TRUE],
        err |-> NoError]

RECURSIVE SumAt(_, _)
SumAt(stack, k) ==
  IF stack = <<>> THEN 0 ELSE Head(stack)[k] + SumAt(Tail(stack), k)

\* updateTransform()
updateTransform(ct) ==
  IF ~ct.isDirty THEN ct
  ELSE [ct EXCEPT !.tx = SumAt(ct.transformStack, 5),
                  !.ty = SumAt(ct.transformStack, 6),
                  !.isDirty = FALSE]

\* transform(x, y): the parser after the call and the point returned.
transform(ct, x, y) ==
  LET u == updateTransform(ct)
  IN [ct |-> u, val |-> <<x + u.tx, y - u.ty, 0>>]

----------------------------------------------------------------------------
(* Colors: hexColor, getComplimentaryColor, rgbToHsl, hslToRgb.  A packed  *)
(* color is a 32-bit signed integer, as the bitwise operators of the code  *)
(* produce it; a fraction is a pair <<numerator, denominator>> with a      *)
(* positive denominator, in lowest terms.                                  *)

RECURSIVE Gcd(_, _)
Gcd(a, b) == IF b = 0 THEN a ELSE Gcd(b, a % b)
Abs(a) == IF a < 0 THEN -a ELSE a
Q(n, d) == LET g == Gcd(Abs(n), d) IN <<n \div g, d \div g>>
QAdd(a, b) == LET g == Gcd(a[2], b[2])
              IN Q(a[1] * (b[2] \div g) + b[1] * (a[2] \div g), (a[2] \div g) * b[2])
QSub(a, b) == QAdd(a, <<-b[1], b[2]>>)
QMul(a, b) == LET x == Q(a[1], b[2])
                  y == Q(b[1], a[2])
              IN <<x[1] * y[1], x[2] * y[2]>>
QLess(a, b) == QSub(a, b)[1] < 0
QMin(a, b) == IF QLess(b, a) THEN b ELSE a
\* Math.round(q * 255)
Round255(q) == (2 * 255 * q[1] + q[2]) \div (2 * q[2])
Max3(a, b, c) == IF a >= b /\ a >= c THEN a ELSE IF b >= c THEN b ELSE c
Min3(a, b, c) == IF a <= b /\ a <= c THEN a ELSE IF b <= c THEN b ELSE c

\* (r << 24) | (g << 16) | (b << 8) | a, as a signed 32-bit integer
Pack(r, g, b, a) ==
  (IF r >= 128 THEN r - 256 ELSE r) * 16777216 + g * 65536 + b * 256 + a
\* (color >> shift) & 0xff
Byte(color, shift) == (color \div shift) % 256

\* function hexColor(rgbArray)
hexColor(rgbArray) == Pack(rgbArray[1], rgbArray[2], rgbArray[3], 255)

\* rgbToHsl, the else-branch: s from d and max + min (line 363)
Saturation(max, min) ==
  IF max + min > 255 THEN Q(max - min, 510 - max - min) ELSE Q(max - min, max + min)

\* rgbToHsl, the switch on max: h before the division by 6 (lines 365-369)
Hue6(r, g, b, max, d) ==
  IF max = r THEN QAdd(Q(g - b, d), Q(IF g < b THEN 6 ELSE 0, 1))
  ELSE IF max = g THEN QAdd(Q(b - r, d), Q(2, 1))
  ELSE QAdd(Q(r - g, d), Q(4, 1))

\* rgbToHsl once max and min are known (lines 357-374)
rgbToHslOf(r, g, b, max, min) ==
  IF max = min THEN <<Q(0, 1), Q(0, 1), Q(max + min, 510)>>
  ELSE <<QMul(Hue6(r, g, b, max, max - min), Q(1, 6)), Saturation(max, min),
         Q(max + min, 510)>>

\* function rgbToHsl(r, g, b): <<h, s, l>>
rgbToHsl(r, g, b) == rgbToHslOf(r, g, b, Max3(r, g, b), Min3(r, g, b))

\* hue2rgb: if (t > 1) t -= 1
WrapAbove(t) == IF QLess(Q(1, 1), t) THEN QSub(t, Q(1, 1)) ELSE t

\* hue2rgb: if (t < 0) t += 1
WrapBelow(t) == IF QLess(t, Q(0, 1)) THEN QAdd(t, Q(1, 1)) ELSE t

\* hue2rgb after the two wraps of t (lines 396-399)
hue2rgbOf(p, q, t) ==
  IF QLess(t, Q(1, 6)) THEN QAdd(p, QMul(QMul(QSub(q, p), Q(6, 1)), t))
  ELSE IF QLess(t, Q(1, 2)) THEN q
  ELSE IF QLess(t, Q(2, 3))
       THEN QAdd(p, QMul(QMul(QSub(q, p), QSub(Q(2, 3), t)), Q(6, 1)))
  ELSE p

\* function hue2rgb(p, q, t)
hue2rgb(p, q, t0) == hue2rgbOf(p, q, WrapAbove(WrapBelow(t0)))

\* hslToRgb: var q = l < 0.5 ? l * (1 + s) : l + s - l * s
HslQ(s, l) ==
  IF QLess(l, Q(1, 2)) THEN QMul(l, QAdd(Q(1, 1), s)) ELSE QSub(QAdd(l, s), QMul(l, s))

\* hslToRgb: the three channels from p and q (lines 386-388)
Channels(h, p, q) ==
  <<Round255(hue2rgb(p, q, QAdd(h, Q(1, 3)))),
    Round255(hue2rgb(p, q, h)),
    Round255(hue2rgb(p, q, QSub(h, Q(1, 3))))>>

\* hslToRgb: var p = 2 * l - q
ChannelsOfQ(h, l, q) == Channels(h, QSub(QMul(Q(2, 1), l), q), q)

\* function hslToRgb(h, s, l): <<r, g, b>>
hslToRgb(h, s, l) ==
  IF s[1] = 0 THEN <<Round255(l), Round255(l), Round255(l)>>
  ELSE ChannelsOfQ(h, l, HslQ(s, l))

\* getComplimentaryColor: lightningFactor becomes 0.8 when l > 0.5, then
\* hslToRgb(h, s, Math.min(1, l * lightningFactor))
Lighten(hsl) ==
  hslToRgb(hsl[1], hsl[2],
           QMin(Q(1, 1), QMul(hsl[3], IF QLess(Q(1, 2), hsl[3]) THEN Q(4, 5) ELSE Q(7, 5))))

\* getComplimentaryColor: (r << 24) | (g << 16) | (b << 8) | alpha
PackRgb(rgb, alpha) == Pack(rgb[1], rgb[2], rgb[3], alpha)

\* function getComplimentaryColor(color, lightningFactor = 1.4, alpha = 0xaa)
getComplimentaryColor(color) ==
  PackRgb(Lighten(rgbToHsl(Byte(color, 16777216), Byte(color, 65536), Byte(color, 256))),
          170)

----------------------------------------------------------------------------
(* Elements of the streamed document.  An element carries the attributes   *)
(* the code reads: id, transform, viewBox, cx, cy, r, and, for a path,     *)
(* what getPointsFromPathData and getElementFillColor extract from it.     *)

NullElement ==
  [tagName |-> "null", hasId |-> FALSE, id |-> <<>>, transform |-> NoAttr,
   viewBox |-> <<>>, cx |-> Junk, cy |-> Junk, r |-> Junk, d |-> <<>>,
   fill |-> <<0, 0, 0>>]

\* let viewBox; (undefined until an svg element sets it)
UndefinedViewBox == [defined |-> FALSE, left |-> 0, top |-> 0, width |-> 0, height |-> 0]

\* '0 0 1024 1024'.split(' ')
DefaultViewBoxTokens == NumSeq(<<0, 0, 1024, 1024>>)

\* The ingestion state the handlers read and write.
State ==
  [viewBox |-> viewBox, currentTransform |-> currentTransform, positions |-> positions,
   nodeNameToUI |-> nodeNameToUI, nodesByComponent |-> nodesByComponent,
   complimentaryColor |-> complimentaryColor, clusterColors |-> clusterColors,
   boundariesFill |-> boundariesFill]

\* function getNumericAttribute(el, name), on the attribute's text
getNumericAttribute(tok) ==
  LET value == ParseFloat(tok)
  IN IF ~finiteNumber(value) THEN [err |-> "InvalidNumericAttribute", val |-> 0]
     ELSE [err |-> NoError, val |-> value.v]

\* function getTextAttribute(el, 'id')
getTextAttribute(el) == IF el.hasId THEN el.id ELSE <<>>

\* if (nodeName[0] === '_') nodeName = nodeName.substr(1)
StripUnderscore(nodeName) ==
  IF nodeName # <<>> /\ Head(nodeName) = "_" THEN Tail(nodeName) ELSE nodeName

\* str.substr(1)
Substr1(str) == IF str = <<>> THEN <<>> ELSE Tail(str)

\* function transformY(y); viewBox.height throws a TypeError while viewBox is undefined
transformY(vb, y) ==
  IF ~vb.defined THEN [err |-> "TypeError", val |-> 0]
  ELSE [err |-> NoError, val |-> vb.height + vb.top - y]

\* the svg branch of handleElementStart (lines 237-259)
setViewBox(st, element) ==
  LET viewBoxArr == ParseFiniteTokens(IF element.viewBox = <<>> THEN DefaultViewBoxTokens
                                      ELSE element.viewBox)
  IN IF Len(viewBoxArr) # 4 THEN [st |-> st, err |-> "InvalidViewBox"]
     ELSE [st |-> [st EXCEPT !.viewBox = [defined |-> TRUE, left |-> viewBoxArr[1],
                                          top |-> viewBoxArr[2], width |-> viewBoxArr[3],
                                          height |-> viewBoxArr[4]]],
           err |-> NoError]

\* A duplicate check that finds no name.
IsKnownNameNever(map, nodeName) == FALSE

\* nodeNameToUI.has(nodeName)
IsKnownName(map, nodeName) == nodeName \in DOMAIN map

\* An id counted from 1.
NextIdFromOne(stored) == Len(stored) + 1

\* id: positions.length
NextId(stored) == Len(stored)

\* A membership set that is created anew for every circle.
ComponentSetFresh(byComponent, componentId) == <<>>

\* nodesByComponent.get(componentId), or a new Set when there is none yet
ComponentSet(byComponent, componentId) ==
  IF componentId \in DOMAIN byComponent THEN byComponent[componentId] ELSE <<>>

\* function addNode(el)
addNode(st, el, parent) ==
  LET x == getNumericAttribute(el.cx)
      cy == getNumericAttribute(el.cy)
      y == transformY(st.viewBox, cy.val)
      r == getNumericAttribute(el.r)
      nodeName == StripUnderscore(getTextAttribute(el))
      componentId == getTextAttribute(parent)
      neighbors == ComponentSet(st.nodesByComponent, componentId)
      resolved == transform(st.currentTransform, x.val, y.val)
      ui == [componentId |-> componentId, position |-> resolved.val,
             color |-> "0xdcdcdcff", size |-> r.val * 2,
             id |-> NextId(st.positions), name |-> nodeName]
  IN IF x.err # NoError THEN [st |-> st, err |-> x.err]
     ELSE IF cy.err # NoError THEN [st |-> st, err |-> cy.err]
     ELSE IF y.err # NoError THEN [st |-> st, err |-> y.err]
     ELSE IF r.err # NoError THEN [st |-> st, err |-> r.err]
     ELSE IF IsKnownName(st.nodeNameToUI, nodeName)
          THEN [st |-> st, err |-> "DuplicateNodeName"]
     ELSE IF parent.tagName = "null" THEN [st |-> st, err |-> "TypeError"]
     ELSE [st |-> [st EXCEPT
                     !.nodesByComponent = MapSet(@, componentId, SetAdd(neighbors, nodeName)),
                     !.currentTransform = resolved.ct,
                     !.nodeNameToUI = MapSet(@, nodeName, ui),
                     !.positions = Append(@, ui)],
           err |-> NoError]

\* function parseBorder(el): the points are resolved one by one, left to right;
\* transformY throws at the first point while viewBox is undefined.
RECURSIVE MapPoints(_, _, _)
MapPoints(ct, vb, pts) ==
  IF pts = <<>> THEN [ct |-> ct, err |-> NoError, points |-> <<>>]
  ELSE LET y == transformY(vb, Head(pts)[2])
           p == transform(ct, Head(pts)[1], y.val)
           rest == MapPoints(p.ct, vb, Tail(pts))
       IN IF y.err # NoError THEN [ct |-> ct, err |-> y.err, points |-> <<>>]
          ELSE [ct |-> rest.ct, err |-> rest.err,
                points |-> <<<<p.val[1], p.val[2]>>>> \o rest.points]

\* function addBorder(el)
addBorder(st, el) ==
  LET parsed == MapPoints(st.currentTransform, st.viewBox, el.d)
      color == hexColor(el.fill)
      drawn == [st EXCEPT !.currentTransform = parsed.ct,
                          !.boundariesFill = Append(@, [polygon |-> parsed.points,
                                                        color |-> color])]
      clusterId == Substr1(el.id)
  IN IF parsed.err # NoError
     THEN [st |-> [st EXCEPT !.currentTransform = parsed.ct], err |-> parsed.err]
     ELSE IF ~el.hasId THEN [st |-> drawn, err |-> "TypeError"]
     ELSE [st |-> [drawn EXCEPT
                     !.clusterColors = MapSet(@, clusterId, color),
                     !.complimentaryColor = MapSet(@, clusterId, getComplimentaryColor(color))],
           err |-> NoError]

\* function handleElementStart(element); pushed: a transform went onto the stack
handleElementStart(st, element, parent) ==
  IF element.tagName = "svg"
  THEN LET v == setViewBox(st, element) IN [st |-> v.st, err |-> v.err, pushed |-> FALSE]
  ELSE IF element.tagName = "path"
  THEN LET b == addBorder(st, element) IN [st |-> b.st, err |-> b.err, pushed |-> FALSE]
  ELSE IF element.tagName = "circle"
  THEN LET n == addNode(st, element, parent)
       IN [st |-> n.st, err |-> n.err, pushed |-> FALSE]
  ELSE IF element.transform # NoAttr
  THEN LET t == pushTransform(st.currentTransform, element.transform)
       IN [st |-> [st EXCEPT !.currentTransform = t.ct], err |-> t.err,
           pushed |-> t.err = NoError]
  ELSE [st |-> st, err |-> NoError, pushed |-> FALSE]

\* function handleElementEnd(element); popped: a transform left the stack
handleElementEnd(st, element) ==
  IF element.transform # NoAttr
  THEN LET t == popTransform(st.currentTransform)
       IN [st |-> [st EXCEPT !.currentTransform = t.ct], err |-> t.err,
           popped |-> t.err = NoError]
  ELSE [st |-> st, err |-> NoError, popped |-> FALSE]

----------------------------------------------------------------------------
(* The documents streamed in the model.                                    *)

El(tag, hasId, id, tr, vb, cx, cy, r, d, fill) ==
  [tagName |-> tag, hasId |-> hasId, id |-> id, transform |-> tr, viewBox |-> vb,
   cx |-> cx, cy |-> cy, r |-> r, d |-> d, fill |-> fill]

M1 == Matrix(NumSeq(<<1, 0, 0, 1, 10, 20>>))     \* matrix(1,0,0,1,10,20)
ShortMatrix == Matrix(NumSeq(<<1, 0, 0, 1, 10>>)) \* matrix(1,0,0,1,10)
Translate == [fn |-> "translate", toks |-> NumSeq(<<10, 20>>)]  \* translate(10,20)

Svg(tr, vb) == El("svg", FALSE, <<>>, tr, vb, Junk, Junk, Junk, <<>>, <<0, 0, 0>>)
Group(id, tr) == El("g", TRUE, id, tr, <<>>, Junk, Junk, Junk, <<>>, <<0, 0, 0>>)
Circle(id, tr, cx) == El("circle", TRUE, id, tr, <<>>, cx, Num(2), Num(1), <<>>, <<0, 0, 0>>)
Path(hasId, id, tr, d, fill) == El("path", hasId, id, tr, <<>>, Junk, Junk, Junk, d, fill)

SvgElements ==
  {Svg(NoAttr, NumSeq(<<0, 0, 8, 8>>)),               \* viewBox="0 0 8 8"
   Svg(M1, <<>>),                                     \* no viewBox attribute
   Svg(NoAttr, NumSeq(<<0, 0, 8>>)),                  \* viewBox="0 0 8"
   Svg(NoAttr, NumSeq(<<0, 0, 8, 8>>) \o <<Junk>>)}   \* viewBox="0 0 8 8 x"

GroupElements ==
  {Group(<<"c">>, M1), Group(<<"d">>, NoAttr), Group(<<"d">>, ShortMatrix)}

CircleElements ==
  {Circle(<<"a">>, NoAttr, Num(1)), Circle(<<"_", "a">>, M1, Num(1)),
   Circle(<<"b">>, NoAttr, Num(1)), Circle(<<"a">>, NoAttr, Junk)}

PathElements ==
  {Path(TRUE, <<"_", "c">>, M1, <<<<1, 1>>>>, <<200, 200, 200>>),
   Path(TRUE, <<"_", "c">>, NoAttr, <<>>, <<255, 0, 0>>),
   Path(FALSE, <<>>, NoAttr, <<>>, <<200, 200, 200>>)}

Elements == SvgElements \cup GroupElements \cup CircleElements \cup PathElements

----------------------------------------------------------------------------
(* The renderer: construction, loadSVG, the two element handlers, dispose. *)

\* The streaming source (createSVGLoader): its status, the open elements of its
\* document, and what it has delivered: circle names, path cluster ids, paths.
NoLoader == [status |-> "none", loads |-> 0, events |-> 0, open |-> <<>>, nodes |-> {},
             clusters |-> {}, borders |-> 0]

\* let subgraphVisualizer; (undefined or null: no subgraph is shown)
NoVisualizer == [isNull |-> TRUE, subgraph |-> [nodes |-> <<>>, links |-> <<>>]]

\* createStreamingSVGRenderer(canvas), lines 17-66
Init ==
  /\ loader = NoLoader
  /\ graph = <<>>
  /\ viewBox = UndefinedViewBox
  /\ currentTransform = NewTransformParser
  /\ positions = <<>>
  /\ nodeNameToUI = EmptyMap
  /\ nodesByComponent = EmptyMap
  /\ complimentaryColor = EmptyMap
  /\ clusterColors = EmptyMap
  /\ boundariesFill = <<>>
  /\ subgraphVisualizer = NoVisualizer
  /\ paused = FALSE
  /\ busOn = TRUE
  /\ disposeCallbacks = 0
  /\ ret = [op |-> "create"]

SetState(st) ==
  /\ viewBox' = st.viewBox
  /\ currentTransform' = st.currentTransform
  /\ positions' = st.positions
  /\ nodeNameToUI' = st.nodeNameToUI
  /\ nodesByComponent' = st.nodesByComponent
  /\ complimentaryColor' = st.complimentaryColor
  /\ clusterColors' = st.clusterColors
  /\ boundariesFill' = st.boundariesFill

\* What loadSVG resets: the loader, and nothing else.
loadSVGState(st) == st

\* function loadSVG(path): the old loader is disposed, a new one streams from
\* the start of its document and holds a new graph.
LoadSVG ==
  /\ busOn            \* the renderer is not used once it is disposed
  /\ loader.loads < MaxLoads
  /\ loader' = [NoLoader EXCEPT !.status = "loading", !.loads = loader.loads + 1,
                               !.events = loader.events]
  /\ graph' = <<>>
  /\ SetState(loadSVGState(State))
  /\ ret' = [op |-> "loadSVG"]
  /\ UNCHANGED <<subgraphVisualizer, paused, busOn, disposeCallbacks>>

Parent == IF loader.open = <<>> THEN NullElement ELSE loader.open[Len(loader.open)].el

\* The loader delivers element-start; a handler that throws aborts the pass.
\* In the documents of the model only svg and g elements have children.
ElementStart(element) ==
  /\ loader.status = "loading"
  /\ Len(loader.open) < MaxDepth
  /\ loader.events < MaxEvents
  /\ Parent.tagName \in {"null", "svg", "g"}
  /\ element.tagName = "circle" => Len(positions) < MaxNodes
  /\ element.tagName = "path" => Len(boundariesFill) < MaxBorders
  /\ LET h == handleElementStart(State, element, Parent)
         delivered == [loader EXCEPT
                         !.events = @ + 1,
                         !.nodes = IF element.tagName = "circle"
                                   THEN @ \cup {StripUnderscore(getTextAttribute(element))}
                                   ELSE @,
                         !.clusters = IF element.tagName = "path" /\ element.hasId
                                      THEN @ \cup {Substr1(element.id)} ELSE @,
                         !.borders = IF element.tagName = "path" THEN @ + 1 ELSE @]
     IN /\ SetState(h.st)
        /\ loader' = IF h.err # NoError THEN [delivered EXCEPT !.status = "failed"]
                     ELSE [delivered EXCEPT
                             !.open = Append(@, [el |-> element, pushed |-> h.pushed])]
        /\ ret' = [op |-> "elementStart", el |-> element, err |-> h.err,
                   pushed |-> h.pushed,
                   known |-> element.tagName = "circle" /\
                             StripUnderscore(getTextAttribute(element)) \in DOMAIN nodeNameToUI]
  /\ UNCHANGED <<graph, subgraphVisualizer, paused, busOn, disposeCallbacks>>

\* The loader delivers element-end of the innermost open element.
ElementEnd ==
  /\ loader.status = "loading"
  /\ loader.open # <<>>
  /\ loader.events < MaxEvents
  /\ LET top == loader.open[Len(loader.open)]
         h == handleElementEnd(State, top.el)
     IN /\ SetState(h.st)
        /\ loader' = IF h.err # NoError
                     THEN [loader EXCEPT !.status = "failed", !.events = @ + 1]
                     ELSE [loader EXCEPT !.open = SubSeq(@, 1, Len(@) - 1),
                                         !.events = @ + 1]
        /\ ret' = [op |-> "elementEnd", el |-> top.el, err |-> h.err,
                   popped |-> h.popped, pushed |-> top.pushed]
  /\ UNCHANGED <<graph, subgraphVisualizer, paused, busOn, disposeCallbacks>>

\* function dispose()
Dispose ==
  /\ busOn
  /\ loader' = IF loader.status = "none" THEN loader
               ELSE [loader EXCEPT !.status = "disposed"]
  /\ busOn' = FALSE
  /\ ret' = [op |-> "dispose"]
  /\ UNCHANGED <<graph, viewBox, currentTransform, positions, nodeNameToUI,
                 nodesByComponent, complimentaryColor, clusterColors, boundariesFill,
                 subgraphVisualizer, paused, disposeCallbacks>>

Next ==
  \/ LoadSVG
  \/ \E element \in Elements : ElementStart(element)
  \/ ElementEnd
  \/ Dispose

Spec == Init /\ [][Next]_vars

----------------------------------------------------------------------------
(* The transform parser driven directly: any sequence of pushTransform,    *)
(* popTransform and transform calls.                                      *)

M3 == Matrix(NumSeq(<<2, 0, 0, 2, 3, 4>>))                   \* matrix(2,0,0,2,3,4)
LongMatrix == Matrix(NumSeq(<<1, 0, 0, 1, 5, 6>>) \o <<Junk>>) \* matrix(1,0,0,1,5,6,x)

TransformStrings == {M1, M3, LongMatrix, ShortMatrix, Translate, NoAttr}
Coordinates == {0, 5}

\* What a call on the parser leaves alone: everything but the parser.
rendererVars ==
  <<loader, graph, viewBox, positions, nodeNameToUI, nodesByComponent,
    complimentaryColor, clusterColors, boundariesFill, subgraphVisualizer, paused, busOn,
    disposeCallbacks>>

ParserPush(transformStr) ==
  /\ Len(currentTransform.transformStack) < MaxStack
  /\ LET t == pushTransform(currentTransform, transformStr)
     IN /\ currentTransform' = t.ct
        /\ ret' = [op |-> "pushTransform", str |-> transformStr, err |-> t.err]
  /\ UNCHANGED rendererVars

ParserPop ==
  /\ LET t == popTransform(currentTransform)
     IN /\ currentTransform' = t.ct
        /\ ret' = [op |-> "popTransform", err |-> t.err]
  /\ UNCHANGED rendererVars

ParserTransform(x, y) ==
  /\ LET t == transform(currentTransform, x, y)
     IN /\ currentTransform' = t.ct
        /\ ret' = [op |-> "transform", x |-> x, y |-> y, val |-> t.val, err |-> NoError]
  /\ UNCHANGED rendererVars

NextParser ==
  \/ \E transformStr \in TransformStrings : ParserPush(transformStr)
  \/ ParserPop
  \/ \E x \in Coordinates, y \in Coordinates : ParserTransform(x, y)

SpecParser == Init /\ [][NextParser]_vars

----------------------------------------------------------------------------
(* The link graph (ngraph.graph, as the code uses it): a sequence of links *)
(* in insertion order; forEachLinkedNode visits the links of a node in     *)
(* that order, whatever their direction; hasLink is directed.              *)

Link(from, to) == [fromId |-> from, toId |-> to]

\* graph.forEachLinkedNode(nodeId, (otherNode, link) => ..): what it visits
RECURSIVE forEachLinkedNode(_, _)
forEachLinkedNode(g, nodeId) ==
  IF g = <<>> THEN <<>>
  ELSE LET link == Head(g)
           rest == forEachLinkedNode(Tail(g), nodeId)
       IN IF link.fromId = nodeId THEN <<[other |-> link.toId, link |-> link]>> \o rest
          ELSE IF link.toId = nodeId
          THEN <<[other |-> link.fromId, link |-> link]>> \o rest
          ELSE rest

\* graph.hasLink(fromId, toId)
hasLink(g, from, to) == \E i \in DOMAIN g : g[i].fromId = from /\ g[i].toId = to

----------------------------------------------------------------------------
(* The highlight queries, lines 80-125.                                    *)

maxLinks == 10

\* {...nodeNameToUI.get(name)} with its color replaced
Highlighted(map, name, color) ==
  IF name \in DOMAIN map THEN [map[name] EXCEPT !.color = color]
  ELSE [color |-> color]

\* A derivation that keeps only the linked nodes of the focused node's cluster.
getHighlightedNodesFiltered(hasGraph, g, byComponent, map, ui) ==
  IF ~hasGraph THEN [err |-> NoError, val |-> <<>>]
  ELSE LET linked == forEachLinkedNode(g, ui.name)
           hlNode == Highlighted(map, ui.name, "PRIMARY_HIGHLIGHT_COLOR")
           kept == SelectSeq(linked,
                             LAMBDA l : l.other \in Range(byComponent[ui.componentId]))
       IN IF ui.componentId \notin DOMAIN byComponent /\ linked # <<>>
          THEN [err |-> "TypeError", val |-> <<>>]
          ELSE [err |-> NoError,
                val |-> <<hlNode>> \o
                        [i \in DOMAIN kept |->
                           Highlighted(map, kept[i].other, "SECONDARY_HIGHLIGHT_COLOR")]]

\* function getHighlightedNodes(ui); neighbors.has throws a TypeError on the
\* first linked node when ui.componentId is in no index.
getHighlightedNodes(hasGraph, g, byComponent, map, ui) ==
  IF ~hasGraph THEN [err |-> NoError, val |-> <<>>]
  ELSE LET linked == forEachLinkedNode(g, ui.name)
           hlNode == Highlighted(map, ui.name, "PRIMARY_HIGHLIGHT_COLOR")
       IN IF ui.componentId \notin DOMAIN byComponent /\ linked # <<>>
          THEN [err |-> "TypeError", val |-> <<>>]
          ELSE [err |-> NoError,
                val |-> <<hlNode>> \o
                        [i \in DOMAIN linked |->
                           Highlighted(map, linked[i].other, "SECONDARY_HIGHLIGHT_COLOR")]]

\* if (idx > maxLinks && !isFirstLevel) return;
OverCap(idx, isFirstLevel) == idx > maxLinks /\ ~isFirstLevel

\* The callback of graph.forEachLinkedNode(neighborId, ..), lines 110-121, over
\* the linked nodes still to visit; idx counts the links pushed for neighborId.
RECURSIVE LinksOfNeighbor(_, _, _, _, _, _, _)
LinksOfNeighbor(linked, idx, neighborId, neighbors, map, ui, secondaryLinkColor) ==
  IF linked = <<>> THEN <<>>
  ELSE LET other == Head(linked).other
           isFirstLevel == neighborId = ui.name \/ other = ui.name
           skip == other \notin Range(neighbors) \/ OverCap(idx, isFirstLevel)
           rest == LinksOfNeighbor(Tail(linked), IF skip THEN idx ELSE idx + 1,
                                   neighborId, neighbors, map, ui, secondaryLinkColor)
       IN IF skip THEN rest
          ELSE <<[from |-> map[neighborId].position, to |-> map[other].position,
                  color |-> IF isFirstLevel THEN "0xffffffff" ELSE secondaryLinkColor,
                  isFirstLevel |-> isFirstLevel]>> \o rest

RECURSIVE Concat(_)
Concat(seqs) == IF seqs = <<>> THEN <<>> ELSE Head(seqs) \o Concat(Tail(seqs))

\* function getHighlightedLinks(ui); neighbors.forEach throws a TypeError when
\* ui.componentId is in no index.
getHighlightedLinks(hasGraph, g, byComponent, comp, map, ui) ==
  IF ~hasGraph THEN [err |-> NoError, val |-> <<>>]
  ELSE IF ui.componentId \notin DOMAIN byComponent
  THEN [err |-> "TypeError", val |-> <<>>]
  ELSE LET neighbors == byComponent[ui.componentId]
           secondaryLinkColor == IF ui.componentId \in DOMAIN comp
                                 THEN [defined |-> TRUE, color |-> comp[ui.componentId]]
                                 ELSE [defined |-> FALSE, color |-> 0]
       IN [err |-> NoError,
           val |-> Concat([i \in DOMAIN neighbors |->
                     LinksOfNeighbor(forEachLinkedNode(g, neighbors[i]), 0, neighbors[i],
                                     neighbors, map, ui, secondaryLinkColor)])]

----------------------------------------------------------------------------
(* The highlight queries while a document streams in: one cluster "c"     *)
(* around a hub, one node of another cluster, and a graph that links the   *)
(* hub to the other nodes one by one.                                      *)

HLSpare == 4       \* nodes of the document beyond maxLinks
NumHLNodes == maxLinks + HLSpare

Letters == <<"a", "b", "c", "d", "e", "f", "g", "h", "i", "j", "k", "l", "m", "n",
             "o", "p", "q", "r", "s", "t", "u", "v", "w", "x", "y", "z">>
HLName(i) == <<Letters[i]>>
Hub == HLName(1)
Outsider == HLName(3)     \* the node that is in cluster "d"

\* <circle id=.. cx=i cy=2 r=1/>
HLCircle(i) ==
  El("circle", TRUE, HLName(i), NoAttr, <<>>, Num(i), Num(2), Num(1), <<>>, <<0, 0, 0>>)

\* The circles of cluster "c", in document order, and the one of cluster "d".
HLCircles == [i \in 1..NumHLNodes |-> HLCircle(i)]
ClusterCircles == SelectSeq(HLCircles, LAMBDA c : c.id # Outsider)
OutsiderCircle == SelectSeq(HLCircles, LAMBDA c : c.id = Outsider)[1]

HLStart(el) == [start |-> TRUE, el |-> el]
HLEnd(el) == [start |-> FALSE, el |-> el]

\* <svg viewBox="0 0 8 8"><path id="_c"/><g id="c"><circle/>..</g>
\* <g id="d"><circle/></g></svg>, as the events the loader delivers.
HLEvents ==
  LET svg == Svg(NoAttr, NumSeq(<<0, 0, 8, 8>>))
      path == Path(TRUE, <<"_", "c">>, NoAttr, <<>>, <<200, 200, 200>>)
  IN <<HLStart(svg), HLStart(path), HLEnd(path), HLStart(Group(<<"c">>, NoAttr))>>
     \o [k \in 1..(2 * Len(ClusterCircles)) |->
           IF k % 2 = 1 THEN HLStart(ClusterCircles[(k + 1) \div 2])
           ELSE HLEnd(ClusterCircles[k \div 2])]
     \o <<HLEnd(Group(<<"c">>, NoAttr)), HLStart(Group(<<"d">>, NoAttr)),
          HLStart(OutsiderCircle), HLEnd(OutsiderCircle), HLEnd(Group(<<"d">>, NoAttr)),
          HLEnd(svg)>>

Loading == [NoLoader EXCEPT !.status = "loading", !.loads = 1]

\* The state after createStreamingSVGRenderer(canvas) and loadSVG(path).
InitHL ==
  /\ loader = Loading
  /\ graph = <<>>
  /\ viewBox = UndefinedViewBox
  /\ currentTransform = NewTransformParser
  /\ positions = <<>>
  /\ nodeNameToUI = EmptyMap
  /\ nodesByComponent = EmptyMap
  /\ complimentaryColor = EmptyMap
  /\ clusterColors = EmptyMap
  /\ boundariesFill = <<>>
  /\ subgraphVisualizer = NoVisualizer
  /\ paused = FALSE
  /\ busOn = TRUE
  /\ disposeCallbacks = 0
  /\ ret = [op |-> "create"]

\* The loader delivers the next event of its document to the handler of the event.
Deliver(events) ==
  /\ loader.status = "loading"
  /\ loader.events < Len(events)
  /\ LET ev == events[loader.events + 1]
         h == IF ev.start THEN handleElementStart(State, ev.el, Parent)
              ELSE handleElementEnd(State, ev.el)
     IN /\ SetState(h.st)
        /\ loader' = IF h.err # NoError
                     THEN [loader EXCEPT !.status = "failed", !.events = @ + 1]
                     ELSE IF ev.start
                     THEN [loader EXCEPT !.events = @ + 1,
                                         !.open = Append(@, [el |-> ev.el, pushed |-> h.pushed])]
                     ELSE [loader EXCEPT !.events = @ + 1,
                                         !.open = SubSeq(@, 1, Len(@) - 1)]
        /\ ret' = [op |-> IF ev.start THEN "elementStart" ELSE "elementEnd",
                   el |-> ev.el, err |-> h.err]
  /\ UNCHANGED <<graph, subgraphVisualizer, paused, busOn, disposeCallbacks>>

\* The loader delivers the next event of the document of the highlight queries.
HLDeliver == Deliver(HLEvents)

\* A reference to a node that is in no index; its name may be one the graph holds.
StaleUI(name) ==
  [componentId |-> <<"z">>, position |-> <<0, 0, 0>>, color |-> "0xdcdcdcff",
   size |-> 2, id |-> 0, name |-> name]
StaleNames == {<<"z">>, Hub}
StaleUIs == {StaleUI(name) : name \in StaleNames}

\* What a query may be about: a stored record, or a stale reference.
FocusNames == {HLName(i) : i \in 1..NumHLNodes} \cup StaleNames
IsFocus(name, stale) == IF stale THEN name \in StaleNames ELSE name \in DOMAIN nodeNameToUI
FocusUI(name, stale) == IF stale THEN StaleUI(name) ELSE nodeNameToUI[name]

\* What the graph and the queries leave alone: the ingested document.
documentVars ==
  <<loader, viewBox, currentTransform, positions, nodeNameToUI, nodesByComponent,
    complimentaryColor, clusterColors, boundariesFill, subgraphVisualizer, paused, busOn,
    disposeCallbacks>>

\* The nodes the hub is linked with so far.
HubLinked == {graph[i].fromId : i \in DOMAIN graph} \cup {graph[i].toId : i \in DOMAIN graph}

\* The loader links the hub and the next node, in alternating directions: the
\* first link at any time of the stream, the others once the document is
\* delivered.
HubAddLink ==
  /\ loader.events = Len(HLEvents) \/ graph = <<>>
  /\ \E i \in 2..NumHLNodes :
        /\ HLName(i) \notin HubLinked
        /\ \A j \in 2..(i - 1) : HLName(j) \in HubLinked
        /\ graph' = Append(graph, IF i % 2 = 0 THEN Link(Hub, HLName(i))
                                  ELSE Link(HLName(i), Hub))
  /\ ret' = [op |-> "addLink"]
  /\ UNCHANGED documentVars

\* The loader adds the link back from the first node to the hub.
HubAddBackLink ==
  /\ Len(graph) = 1
  /\ graph' = Append(graph, Link(HLName(2), Hub))
  /\ ret' = [op |-> "addLink"]
  /\ UNCHANGED documentVars

QueryNodes(name, stale) ==
  /\ busOn            \* pointerEvents asks until it is disposed
  /\ IsFocus(name, stale)
  /\ LET r == getHighlightedNodes(loader.status # "none", graph, nodesByComponent,
                                  nodeNameToUI, FocusUI(name, stale))
     IN ret' = [op |-> "getHighlightedNodes", ui |-> FocusUI(name, stale),
                err |-> r.err, val |-> r.val]
  /\ UNCHANGED graph
  /\ UNCHANGED documentVars

QueryLinks(name, stale) ==
  /\ busOn            \* pointerEvents asks until it is disposed
  /\ IsFocus(name, stale)
  /\ LET r == getHighlightedLinks(loader.status # "none", graph, nodesByComponent,
                                  complimentaryColor, nodeNameToUI, FocusUI(name, stale))
     IN ret' = [op |-> "getHighlightedLinks", ui |-> FocusUI(name, stale),
                err |-> r.err, val |-> r.val]
  /\ UNCHANGED graph
  /\ UNCHANGED documentVars

NextHL ==
  \/ HLDeliver
  \/ HubAddLink
  \/ HubAddBackLink
  \/ \E name \in FocusNames, stale \in BOOLEAN : QueryNodes(name, stale)
  \/ \E name \in FocusNames, stale \in BOOLEAN : QueryLinks(name, stale)

SpecHL == InitHL /\ [][NextHL]_vars

----------------------------------------------------------------------------
(* showRelated, lines 127-173.  The subgraph is an ngraph.graph: its nodes *)
(* in insertion order, each with its data, and its links.  A node that     *)
(* addLink creates has no data until addNode gives it some.                *)

NoData == [kind |-> "none", isFirstChild |-> FALSE]        \* addNode(id) of addLink
RootData == [kind |-> "root", isFirstChild |-> FALSE]      \* {isRoot: true}
ChildData(isFirstChild) == [kind |-> "child", isFirstChild |-> isFirstChild]

\* createGraph()
EmptyGraph == [nodes |-> <<>>, links |-> <<>>]

\* subgraph.getNode(id): the index of the node, 0 when there is none
getNode(sg, id) ==
  IF \E i \in DOMAIN sg.nodes : sg.nodes[i].id = id
  THEN CHOOSE i \in DOMAIN sg.nodes : sg.nodes[i].id = id
  ELSE 0

\* subgraph.addNode(id, data): a new node, or new data for the node there is
subgraphAddNode(sg, id, data) ==
  IF getNode(sg, id) = 0
  THEN [sg EXCEPT !.nodes = Append(@, [id |-> id, data |-> data])]
  ELSE [sg EXCEPT !.nodes[getNode(sg, id)].data = data]

\* getNode(id) || addNode(id), as addLink does for both ends
EnsureNode(sg, id) == IF getNode(sg, id) = 0 THEN subgraphAddNode(sg, id, NoData) ELSE sg

\* subgraph.addLink(fromId, toId, {isRootLevel})
subgraphAddLink(sg, from, to, isRootLevel) ==
  [EnsureNode(EnsureNode(sg, from), to) EXCEPT
     !.links = Append(@, [fromId |-> from, toId |-> to, isRootLevel |-> isRootLevel])]

\* function addNeighbors(node, neighborsSet), over the linked nodes to visit
RECURSIVE AddOthers(_, _)
AddOthers(neighborsSet, linked) ==
  IF linked = <<>> THEN neighborsSet
  ELSE AddOthers(SetAdd(neighborsSet, Head(linked).other), Tail(linked))

addNeighbors(g, node, neighborsSet) == AddOthers(neighborsSet, forEachLinkedNode(g, node))

\* Array.from(subgraphNodes).forEach(node => addNeighbors(node, subgraphNodes))
RECURSIVE AddNeighborsOfAll(_, _, _)
AddNeighborsOfAll(g, nodes, neighborsSet) ==
  IF nodes = <<>> THEN neighborsSet
  ELSE AddNeighborsOfAll(g, Tail(nodes), addNeighbors(g, Head(nodes), neighborsSet))

\* The first argument of graph.hasLink(subgraph, node): the subgraph object,
\* which is the id of no node.
SubgraphObject == <<"[object Object]">>

\* let isFirstChild = graph.hasLink(node, subreddit) || graph.hasLink(subgraph, node)
IsFirstChild(g, node, subreddit) ==
  hasLink(g, node, subreddit) \/ hasLink(g, SubgraphObject, node)

\* lines 139-144: the node gets its tag unless it is there with data
TagNode(sg, g, node, subreddit) ==
  IF getNode(sg, node) = 0 \/ sg.nodes[getNode(sg, node)].data.kind = "none"
  THEN subgraphAddNode(sg, node, ChildData(IsFirstChild(g, node, subreddit)))
  ELSE sg

\* lines 146-152: the callback of graph.forEachLinkedNode(node, ..)
RECURSIVE CopyLinks(_, _, _, _)
CopyLinks(sg, linked, subgraphNodes, subreddit) ==
  IF linked = <<>> THEN sg
  ELSE LET link == Head(linked).link
       IN CopyLinks(
            IF Head(linked).other \notin Range(subgraphNodes)
               \/ hasLink(sg.links, link.fromId, link.toId)
            THEN sg
            ELSE subgraphAddLink(sg, link.fromId, link.toId,
                                 link.fromId = subreddit \/ link.toId = subreddit),
            Tail(linked), subgraphNodes, subreddit)

\* subgraphNodes.forEach(node => ..), lines 138-153
RECURSIVE VisitNodes(_, _, _, _, _)
VisitNodes(sg, g, nodes, subgraphNodes, subreddit) ==
  IF nodes = <<>> THEN sg
  ELSE VisitNodes(CopyLinks(TagNode(sg, g, Head(nodes), subreddit),
                            forEachLinkedNode(g, Head(nodes)), subgraphNodes, subreddit),
                  g, Tail(nodes), subgraphNodes, subreddit)

\* A node set that stops at the neighbors of the root.
SubgraphNodesOneHop(g, subreddit) == addNeighbors(g, subreddit, <<>>)

\* The node set of showRelated: the neighbors of the root, then theirs.
SubgraphNodes(g, subreddit) ==
  AddNeighborsOfAll(g, addNeighbors(g, subreddit, <<>>), addNeighbors(g, subreddit, <<>>))

\* function showRelated(subreddit): the subgraph it hands to the visualizer
showRelated(g, subreddit) ==
  VisitNodes(subgraphAddNode(EmptyGraph, subreddit, RootData), g,
             SubgraphNodes(g, subreddit), SubgraphNodes(g, subreddit), subreddit)

----------------------------------------------------------------------------
(* showRelated on the graph of a load in progress: the loader adds links   *)
(* between a few nodes, in any order and direction.                        *)

MaxGraphLinks == 3

\* The nodes of the graph: a root R, its neighbors A and B, and C.
SubNames == {<<"R">>, <<"A">>, <<"B">>, <<"C">>}

\* The subreddits showRelated is asked about; the links may join any names.
SubRoots == {<<"R">>, <<"A">>}

InitSub ==
  /\ loader = Loading
  /\ graph = <<>>
  /\ viewBox = UndefinedViewBox
  /\ currentTransform = NewTransformParser
  /\ positions = <<>>
  /\ nodeNameToUI = EmptyMap
  /\ nodesByComponent = EmptyMap
  /\ complimentaryColor = EmptyMap
  /\ clusterColors = EmptyMap
  /\ boundariesFill = <<>>
  /\ subgraphVisualizer = NoVisualizer
  /\ paused = FALSE
  /\ busOn = TRUE
  /\ disposeCallbacks = 0
  /\ ret = [op |-> "create"]

\* The loader adds a link to its graph.
GraphAddLink(from, to) ==
  /\ Len(graph) < MaxGraphLinks
  /\ from # to
  /\ ~hasLink(graph, from, to)
  /\ graph' = Append(graph, Link(from, to))
  /\ ret' = [op |-> "addLink"]
  /\ UNCHANGED documentVars

\* showRelated(subreddit): the events are paused and a visualizer of the
\* subgraph replaces the one there was.
ShowRelated(subreddit) ==
  /\ busOn
  /\ subgraphVisualizer' = [isNull |-> FALSE, subgraph |-> showRelated(graph, subreddit)]
  /\ paused' = TRUE
  /\ ret' = [op |-> "showRelated", subreddit |-> subreddit]
  /\ UNCHANGED <<loader, graph, viewBox, currentTransform, positions, nodeNameToUI,
                 nodesByComponent, complimentaryColor, clusterColors, boundariesFill, busOn,
                 disposeCallbacks>>

NextSub ==
  \/ \E from \in SubNames, to \in SubNames : GraphAddLink(from, to)
  \/ \E subreddit \in SubRoots : ShowRelated(subreddit)

SpecSub == InitSub /\ [][NextSub]_vars

----------------------------------------------------------------------------
(* The subgraph mode: showRelated, focus-node and exit-subgraph, lines      *)
(* 155-161 and 185-224, while a small document streams in.  dispose(cb) of *)
(* a visualizer animates and calls cb when it is done, at any later time;  *)
(* dispose() without a callback is immediate.                              *)

MaxCallbacks == 2    \* completion callbacks that are still to come

\* <svg><circle id="R" cx="1" cy="2" r="1"/></svg>, as the events of the loader.
UIEvents ==
  LET svg == Svg(NoAttr, <<>>)
      circle == Circle(<<"R">>, NoAttr, Num(1))
  IN <<HLStart(svg), HLStart(circle), HLEnd(circle), HLEnd(svg)>>

\* The names focus-node is fired with: an ingested one (in time) and an unknown one.
UIFocusNames == {<<"R">>, <<"A">>}

\* The state after createStreamingSVGRenderer(canvas) and loadSVG(path).
InitUI ==
  /\ loader = Loading
  /\ graph = <<>>
  /\ viewBox = UndefinedViewBox
  /\ currentTransform = NewTransformParser
  /\ positions = <<>>
  /\ nodeNameToUI = EmptyMap
  /\ nodesByComponent = EmptyMap
  /\ complimentaryColor = EmptyMap
  /\ clusterColors = EmptyMap
  /\ boundariesFill = <<>>
  /\ subgraphVisualizer = NoVisualizer
  /\ paused = FALSE
  /\ busOn = TRUE
  /\ disposeCallbacks = 0
  /\ ret = [op |-> "create"]

\* The loader delivers the next event of the small document.
UIDeliver == Deliver(UIEvents)

\* The loader adds the one link of its graph, R -> A.
UIAddLink ==
  /\ graph = <<>>
  /\ GraphAddLink(<<"R">>, <<"A">>)

\* What the bus handlers leave alone: the document, the graph, the pause.
uiDocumentVars ==
  <<loader, graph, viewBox, currentTransform, positions, nodeNameToUI, nodesByComponent,
    complimentaryColor, clusterColors, boundariesFill, busOn>>

\* if (subgraphVisualizer) { subgraphVisualizer.dispose(() => ..); subgraphVisualizer = null }
\* (lines 199-204 and 218-223): the callback is kept for later.
DisposeAnimated ==
  IF subgraphVisualizer.isNull
  THEN UNCHANGED <<subgraphVisualizer, disposeCallbacks>>
  ELSE /\ disposeCallbacks < MaxCallbacks
       /\ disposeCallbacks' = disposeCallbacks + 1
       /\ subgraphVisualizer' = NoVisualizer

\* function focusNode(nodeName), fired by the bus
FocusNode(nodeName) ==
  /\ busOn
  /\ IF nodeName \notin DOMAIN nodeNameToUI
     THEN UNCHANGED <<subgraphVisualizer, disposeCallbacks>>     \* if (!ui) return
     ELSE DisposeAnimated
  /\ ret' = [op |-> "focusNode", nodeName |-> nodeName]
  /\ UNCHANGED paused
  /\ UNCHANGED uiDocumentVars

\* function exitSubgraphMode(), fired by the bus
ExitSubgraph ==
  /\ busOn
  /\ DisposeAnimated
  /\ ret' = [op |-> "exitSubgraphMode"]
  /\ UNCHANGED paused
  /\ UNCHANGED uiDocumentVars

\* A visualizer has finished its dispose and calls the callback it was given:
\* () => pointerEvents.setPaused(false)
DisposeDone ==
  /\ disposeCallbacks > 0
  /\ disposeCallbacks' = disposeCallbacks - 1
  /\ paused' = FALSE
  /\ ret' = [op |-> "disposeDone"]
  /\ UNCHANGED subgraphVisualizer
  /\ UNCHANGED uiDocumentVars

NextUI ==
  \/ UIDeliver
  \/ UIAddLink
  \/ \E subreddit \in SubRoots : ShowRelated(subreddit)
  \/ \E nodeName \in UIFocusNames : FocusNode(nodeName)
  \/ ExitSubgraph
  \/ DisposeDone

SpecUI == InitUI /\ [][NextUI]_vars

----------------------------------------------------------------------------
(* Properties of the ingestion pipeline and of the transform parser.       *)

OpenElements == loader.open
PushedOpen == {i \in DOMAIN OpenElements : OpenElements[i].pushed}

\* C1: at an element-end a transform is popped exactly when the matching
\* element-start pushed one, popTransform never raises 'Nothing to pop', and
\* (in the first document, where nothing is left over from an earlier pass)
\* the stack depth after each event is the number of open elements that pushed.
C1_PopMatchesPush ==
  /\ ret.op = "elementEnd" =>
       /\ ret.err # "NothingToPop"
       /\ ret.popped <=> ret.pushed
  /\ (ret.op \in {"elementStart", "elementEnd"} /\ loader.loads = 1
        /\ loader.status = "loading") =>
       Len(currentTransform.transformStack) = Cardinality(PushedOpen)

NamesOf(seq) == {seq[i].name : i \in DOMAIN seq}
ComponentNames == UNION {Range(nodesByComponent[c]) : c \in DOMAIN nodesByComponent}

\* C2: after loadSVG the indices hold only what the present document delivered:
\* no node, border or cluster entry of an earlier document remains.
C2_FullReset ==
  /\ NamesOf(positions) \subseteq loader.nodes
  /\ DOMAIN nodeNameToUI \subseteq loader.nodes
  /\ ComponentNames \subseteq loader.nodes
  /\ DOMAIN clusterColors \subseteq loader.clusters
  /\ DOMAIN complimentaryColor \subseteq loader.clusters
  /\ Len(boundariesFill) <= loader.borders

\* C3: a circle ingested while no open element of the present document carries
\* a transform is resolved with offset (0,0): nothing pushed by an abandoned
\* pass contributes to its position.
C3_StackDiscarded ==
  (/\ ret.op = "elementStart"
   /\ ret.el.tagName = "circle"
   /\ ret.err = NoError
   /\ \A i \in 1..(Len(OpenElements) - 1) : OpenElements[i].el.transform = NoAttr)
  => positions[Len(positions)].position =
       <<ret.el.cx.v, viewBox.height + viewBox.top - ret.el.cy.v, 0>>

\* The name of a circle: its id with one leading '_' stripped.
CanonicalName(id) == IF id # <<>> /\ Head(id) = "_" THEN Tail(id) ELSE id

UniqueNames ==
  \A i, j \in DOMAIN positions :
    i # j => CanonicalName(positions[i].name) # CanonicalName(positions[j].name)

FiniteAttributes(el) == el.cx.k = "num" /\ el.cy.k = "num" /\ el.r.k = "num"

\* C6 as stated: a circle whose name is already known raises the
\* duplicate-node-name error, and no two stored records share a name.  (The
\* first conjunct is stated of the first document, where a known name is one
\* this document delivered.)
C6_KnownNameRaisesDuplicate ==
  /\ (ret.op = "elementStart" /\ ret.el.tagName = "circle" /\ ret.known
        /\ loader.loads = 1)
       => ret.err = "DuplicateNodeName"
  /\ UniqueNames

\* C6 amended: a circle with finite cx, cy and r whose name is already known
\* raises the duplicate-node-name error; a circle with a known name is never
\* stored, whatever error it raises; no two stored records share a name.
C6_KnownNameNeverStored ==
  /\ (ret.op = "elementStart" /\ ret.el.tagName = "circle" /\ ret.known) =>
       /\ ret.err # NoError
       /\ FiniteAttributes(ret.el) => ret.err = "DuplicateNodeName"
  /\ UniqueNames
  /\ \A i \in DOMAIN positions :
       /\ positions[i].name \in DOMAIN nodeNameToUI
       /\ nodeNameToUI[positions[i].name] = positions[i]

\* C6 witness: "_a" is refused as a duplicate of the stored "a".
C6_Witness ==
  /\ ret.op = "elementStart"
  /\ ret.el.tagName = "circle"
  /\ ret.el.id = <<"_", "a">>
  /\ ret.known
  /\ ret.err = "DuplicateNodeName"
  /\ <<"a">> \in DOMAIN nodeNameToUI

StackSum(k) == SumAt(currentTransform.transformStack, k)

\* C9: transform(x, y) returns (x + sum of e, y - sum of f, 0) over the
\* transforms now on the stack, and a clean cache holds those sums.
C9_ResolveUsesCurrentStack ==
  /\ ret.op = "transform" => ret.val = <<ret.x + StackSum(5), ret.y - StackSum(6), 0>>
  /\ ~currentTransform.isDirty =>
       currentTransform.tx = StackSum(5) /\ currentTransform.ty = StackSum(6)
  /\ (ret.op = "transform" /\ ret.x = 0 /\ ret.y = 0
        /\ currentTransform.transformStack = <<<<1, 0, 0, 1, 10, 20>>>>)
       => ret.val = <<10, -20, 0>>

\* C9 witness: matrix(1,0,0,1,10,20) alone on the stack, (0,0) resolved.
C9_Witness ==
  /\ ret.op = "transform"
  /\ ret.x = 0 /\ ret.y = 0
  /\ currentTransform.transformStack = <<<<1, 0, 0, 1, 10, 20>>>>
  /\ ret.val = <<10, -20, 0>>

ViewBoxTokens(el) == IF el.viewBox = <<>> THEN DefaultViewBoxTokens ELSE el.viewBox
FourFiniteTokens(toks) == Len(toks) = 4 /\ \A i \in DOMAIN toks : toks[i].k = "num"

\* C10: an svg element-start stores the ViewBox iff its viewBox attribute (or
\* the default) is exactly 4 tokens, all finite; anything else raises the
\* invalid-viewBox error.
C10_ViewBoxExactlyFourTokens ==
  (ret.op = "elementStart" /\ ret.el.tagName = "svg") =>
    LET toks == ViewBoxTokens(ret.el)
    IN IF FourFiniteTokens(toks)
       THEN /\ ret.err = NoError
            /\ viewBox = [defined |-> TRUE, left |-> toks[1].v, top |-> toks[2].v,
                          width |-> toks[3].v, height |-> toks[4].v]
       ELSE ret.err = "InvalidViewBox"

----------------------------------------------------------------------------
(* Properties of the highlight queries.                                    *)

\* The last call was getHighlightedLinks and it returned its links.
LinksAnswered == ret.op = "getHighlightedLinks" /\ ret.err = NoError

\* The cluster set of the focused node.
ClusterOf(ui) == Range(nodesByComponent[ui.componentId])

\* The links of the answer that start at source n, first-level or not.
EmittedFrom(n, firstLevel) ==
  {i \in DOMAIN ret.val : /\ ret.val[i].from = nodeNameToUI[n].position
                          /\ ret.val[i].isFirstLevel = firstLevel}

\* The in-cluster links of source n in the graph, first-level or not.
InClusterLinks(n, ui, firstLevel) ==
  LET linked == forEachLinkedNode(graph, n)
  IN {i \in DOMAIN linked : /\ linked[i].other \in ClusterOf(ui)
                            /\ (n = ui.name \/ linked[i].other = ui.name) = firstLevel}

Min(a, b) == IF a <= b THEN a ELSE b

\* C4: for every source node n of the focused node's cluster,
\* getHighlightedLinks emits at most 10 links from n that are not first-level,
\* and it emits every in-cluster link that touches the focused node.
C4_AtMostTenPerSource ==
  LinksAnswered =>
    \A n \in ClusterOf(ret.ui) :
      /\ Cardinality(EmittedFrom(n, FALSE)) <= maxLinks
      /\ Cardinality(EmittedFrom(n, TRUE)) = Cardinality(InClusterLinks(n, ret.ui, TRUE))

\* C5: first-level links do not use up the cap of a source node: whatever
\* first-level links were iterated before them, min(10, number of in-cluster
\* non-first-level links of n) links of n that are not first-level are emitted.
C5_FirstLevelNotCounted ==
  LinksAnswered =>
    \A n \in ClusterOf(ret.ui) :
      Cardinality(EmittedFrom(n, FALSE)) >=
        Min(maxLinks, Cardinality(InClusterLinks(n, ret.ui, FALSE)))

\* C8: a highlight query for a node that is in no index returns an empty
\* result and raises no error, whatever the graph holds.
C8_UnknownNodeGivesEmpty ==
  (ret.op \in {"getHighlightedNodes", "getHighlightedLinks"} /\ ret.ui \in StaleUIs) =>
    ret.err = NoError /\ ret.val = <<>>

----------------------------------------------------------------------------
(* Properties of showRelated.                                              *)

\* C7: every node of the subgraph but the root is tagged isFirstChild exactly
\* when the full graph has a link between it and the root, in either direction.
C7_FirstChildEitherDirection ==
  ret.op = "showRelated" =>
    \A i \in DOMAIN subgraphVisualizer.subgraph.nodes :
      LET node == subgraphVisualizer.subgraph.nodes[i]
      IN node.id # ret.subreddit =>
           node.data.isFirstChild =
             (hasLink(graph, node.id, ret.subreddit) \/ hasLink(graph, ret.subreddit, node.id))

----------------------------------------------------------------------------
(* Further properties of the ingestion pipeline.                           *)

\* What an element-start may store: records, memberships, borders, colors.
storedVars ==
  <<positions, nodeNameToUI, nodesByComponent, boundariesFill, clusterColors,
    complimentaryColor>>

\* C11: a circle or path element-start delivered while no svg element has set
\* the ViewBox raises an error and stores nothing: no NodeRecord, no cluster
\* membership, no border and no cluster color.
C11_NothingStoredBeforeViewBox ==
  [][(/\ ~viewBox.defined
      /\ ret'.op = "elementStart"
      /\ ret'.el.tagName \in {"circle", "path"})
     => (ret'.err # NoError /\ UNCHANGED storedVars)]_vars

\* matrix(..) with exactly 6 comma-separated tokens, all finite numbers
SixFiniteTokens(str) ==
  /\ str.fn = "matrix"
  /\ Len(str.toks) = 6
  /\ \A i \in DOMAIN str.toks : str.toks[i].k = "num"

\* C12: pushTransform puts the 6 coefficients on the stack exactly when its
\* string is matrix(..) with exactly 6 tokens, all finite; any other string
\* raises the malformed-transform error and leaves the stack as it was.
C12_PushExactlySixTokens ==
  [][ret'.op = "pushTransform" =>
       IF SixFiniteTokens(ret'.str)
       THEN /\ ret'.err = NoError
            /\ currentTransform'.transformStack =
                 Append(currentTransform.transformStack,
                        [i \in 1..6 |-> ret'.str.toks[i].v])
       ELSE /\ ret'.err = "MalformedTransform"
            /\ currentTransform'.transformStack = currentTransform.transformStack]_vars

\* The root element of the document being streamed is an svg, still open: it
\* has set the ViewBox in this pass.
RootSvgOpen ==
  /\ loader.status = "loading"
  /\ OpenElements # <<>>
  /\ OpenElements[1].el.tagName = "svg"

\* C16: once the root svg element of a document has set the ViewBox, no later
\* event of the same pass changes it, a nested svg element-start included.
C16_ViewBoxSetOnce ==
  [][(RootSvgOpen /\ ret'.op \in {"elementStart", "elementEnd"})
     => viewBox' = viewBox]_vars

\* C17: ingestion is append-only: an element event changes no stored
\* NodeRecord, and changes neither clusterColors[c] nor complimentaryColor[c]
\* once they are set, also when a second path carries the same id.  (Stated of
\* the first document, where everything stored was stored by this pass.)
C17_AppendOnly ==
  [][(ret'.op \in {"elementStart", "elementEnd"} /\ loader.loads = 1) =>
       /\ \A i \in DOMAIN positions : positions'[i] = positions[i]
       /\ \A n \in DOMAIN nodeNameToUI : nodeNameToUI'[n] = nodeNameToUI[n]
       /\ \A c \in DOMAIN clusterColors : clusterColors'[c] = clusterColors[c]
       /\ \A c \in DOMAIN complimentaryColor :
            complimentaryColor'[c] = complimentaryColor[c]]_vars

\* The last event was a circle element-start.
CircleStarted == ret.op = "elementStart" /\ ret.el.tagName = "circle"

\* The ids are dense: the i-th stored record, counted from 0, has id i, the
\* record of a name is the one stored at its id, and there is one name per
\* record.
DenseIds ==
  /\ \A i \in DOMAIN positions : positions[i].id = i - 1
  /\ \A n \in DOMAIN nodeNameToUI :
       /\ nodeNameToUI[n].id + 1 \in DOMAIN positions
       /\ positions[nodeNameToUI[n].id + 1] = nodeNameToUI[n]
       /\ nodeNameToUI[n].name = n
  /\ Cardinality(DOMAIN nodeNameToUI) = Len(positions)

\* C18: after every step the ids are dense; a stored record keeps its place
\* and its id; a circle that is stored takes the next id, and a circle that
\* fails takes none.
C18_DenseStableIds ==
  [][/\ DenseIds'
     /\ \A i \in DOMAIN positions : positions'[i] = positions[i]
     /\ CircleStarted' =>
          IF ret'.err = NoError
          THEN Len(positions') = Len(positions) + 1
          ELSE positions' = positions /\ nodeNameToUI' = nodeNameToUI]_vars

\* C18 witness: a second circle is stored, with id 1, after the first with id 0.
C18_Witness ==
  /\ CircleStarted
  /\ ret.err = NoError
  /\ Len(positions) = 2
  /\ positions[1].id = 0
  /\ positions[2].id = 1
  /\ positions[2].name = StripUnderscore(ret.el.id)

\* The component sets that hold a name.
ComponentsOf(name) ==
  {c \in DOMAIN nodesByComponent : name \in Range(nodesByComponent[c])}

\* A component set holds no name twice.
NoRepeats(s) == Cardinality(Range(s)) = Len(s)

\* The component sets partition the ingested names: the set of a record's
\* componentId holds its name, and no other set does; every name of a set is
\* an ingested name.
ComponentsPartitionNames ==
  /\ \A i \in DOMAIN positions :
       ComponentsOf(positions[i].name) = {positions[i].componentId}
  /\ ComponentNames = DOMAIN nodeNameToUI
  /\ \A c \in DOMAIN nodesByComponent : NoRepeats(nodesByComponent[c])

\* C19: after every step the component sets partition the ingested names,
\* also after a circle that failed; no step removes a name from a set or a set
\* from the index.
C19_ComponentsPartition ==
  [][/\ ComponentsPartitionNames'
     /\ \A c \in DOMAIN nodesByComponent :
          /\ c \in DOMAIN nodesByComponent'
          /\ Range(nodesByComponent[c]) \subseteq Range(nodesByComponent'[c])
     /\ (CircleStarted' /\ ret'.err # NoError) => nodesByComponent' = nodesByComponent]_vars

\* C19 witness: a circle has failed as a duplicate after one was stored in a
\* component that has an id, and the component set holds the stored name only.
C19_Witness ==
  /\ CircleStarted
  /\ ret.err = "DuplicateNodeName"
  /\ Len(positions) = 1
  /\ positions[1].componentId # <<>>
  /\ nodesByComponent[positions[1].componentId] = <<positions[1].name>>

----------------------------------------------------------------------------
(* Further properties of showRelated.                                      *)

\* The subgraph the last showRelated handed to the visualizer.
Shown == subgraphVisualizer.subgraph

\* The two ends of a link, whatever its direction.
Ends(link) == {link.fromId, link.toId}

\* C13: the subgraph of showRelated never holds two edges that connect the
\* same unordered pair of nodes, also when the full graph holds a -> b and
\* b -> a.
C13_OneEdgePerPair ==
  ret.op = "showRelated" =>
    \A i, j \in DOMAIN Shown.links :
      i # j => Ends(Shown.links[i]) # Ends(Shown.links[j])

\* Two nodes are linked in the full graph, in either direction.
Adjacent(a, b) == \E i \in DOMAIN graph : Ends(graph[i]) = {a, b}

\* The nodes within 2 hops of a node in the full graph.
OneHop(root) == {n \in SubNames : Adjacent(root, n)}
WithinTwoHops(root) ==
  OneHop(root) \cup {n \in SubNames : \E m \in OneHop(root) : Adjacent(m, n)}

ShownIds == {Shown.nodes[i].id : i \in DOMAIN Shown.nodes}

\* C14: the subgraph of showRelated(root) has the root and the nodes within 2
\* hops of it as its nodes, each once; the root alone is tagged isRoot; every
\* pair of its nodes that the full graph links is linked in it, and its edges
\* are edges of the full graph; an edge is tagged isRootLevel exactly when one
\* of its ends is the root.
C14_InducedTwoHopSubgraph ==
  ret.op = "showRelated" =>
    /\ ShownIds = {ret.subreddit} \cup WithinTwoHops(ret.subreddit)
    /\ Len(Shown.nodes) = Cardinality(ShownIds)
    /\ \A i \in DOMAIN Shown.nodes :
         (Shown.nodes[i].data.kind = "root") <=> (Shown.nodes[i].id = ret.subreddit)
    /\ \A a, b \in ShownIds :
         Adjacent(a, b) => \E i \in DOMAIN Shown.links : Ends(Shown.links[i]) = {a, b}
    /\ \A i \in DOMAIN Shown.links :
         /\ hasLink(graph, Shown.links[i].fromId, Shown.links[i].toId)
         /\ Shown.links[i].isRootLevel <=> (ret.subreddit \in Ends(Shown.links[i]))

\* C14 witness: a subgraph with a node 2 hops from the root, whose edge to the
\* root's neighbor is not root-level, and the root reached again from its
\* neighbor without losing its tag.
C14_Witness ==
  /\ ret.op = "showRelated"
  /\ \E n \in ShownIds : n # ret.subreddit /\ ~Adjacent(ret.subreddit, n)
  /\ \E i \in DOMAIN Shown.links : ~Shown.links[i].isRootLevel
  /\ \E i \in DOMAIN Shown.links : Shown.links[i].isRootLevel
  /\ Shown.nodes[1] = [id |-> ret.subreddit, data |-> RootData]

----------------------------------------------------------------------------
(* Further properties of the highlight queries.                            *)

\* The last call was getHighlightedNodes for a stored NodeRecord.
NodesAnswered == ret.op = "getHighlightedNodes" /\ ret.ui \notin StaleUIs

\* The links of a node in the full graph, in insertion order, and their far ends.
LinksOf(name) == SelectSeq(graph, LAMBDA link : name \in Ends(link))
OtherEnd(link, name) == IF link.fromId = name THEN link.toId ELSE link.fromId
LinkedNames(name) == {OtherEnd(LinksOf(name)[i], name) : i \in DOMAIN LinksOf(name)}

\* The stored record of a node with another color; only the color when the
\* node is not ingested yet.
Recolored(name, color) ==
  IF name \in DOMAIN nodeNameToUI
  THEN [componentId |-> nodeNameToUI[name].componentId,
        position |-> nodeNameToUI[name].position, color |-> color,
        size |-> nodeNameToUI[name].size, id |-> nodeNameToUI[name].id, name |-> name]
  ELSE [color |-> color]

\* No stored NodeRecord has lost its color.
StoredColorsKept ==
  \A i \in DOMAIN positions :
    /\ positions[i].color = "0xdcdcdcff"
    /\ nodeNameToUI[positions[i].name] = positions[i]

\* C15 as stated: getHighlightedNodes(ui) returns the focused node with the
\* primary color, then one entry per node linked to it, with the secondary
\* color; its length is 1 + the number of linked nodes; the stored records
\* keep their color.
C15_OneEntryPerLinkedNode ==
  /\ NodesAnswered =>
       /\ ret.err = NoError
       /\ Len(ret.val) = 1 + Cardinality(LinkedNames(ret.ui.name))
       /\ ret.val[1] = Recolored(ret.ui.name, "PRIMARY_HIGHLIGHT_COLOR")
       /\ \A n \in LinkedNames(ret.ui.name) :
            \E i \in 2..Len(ret.val) : ret.val[i] = Recolored(n, "SECONDARY_HIGHLIGHT_COLOR")
  /\ StoredColorsKept

\* C15 amended: getHighlightedNodes(ui) returns the focused node with the
\* primary color, then one entry per link of the focused node, in link order,
\* with the secondary color, whatever the cluster of the far end; its length
\* is 1 + the number of those links; the stored records keep their color.
C15_OneEntryPerLink ==
  /\ NodesAnswered =>
       /\ ret.err = NoError
       /\ Len(ret.val) = 1 + Len(LinksOf(ret.ui.name))
       /\ ret.val[1] = Recolored(ret.ui.name, "PRIMARY_HIGHLIGHT_COLOR")
       /\ \A i \in DOMAIN LinksOf(ret.ui.name) :
            ret.val[i + 1] = Recolored(OtherEnd(LinksOf(ret.ui.name)[i], ret.ui.name),
                                       "SECONDARY_HIGHLIGHT_COLOR")
  /\ StoredColorsKept

\* C15 witness: the hub is focused; its first neighbor, linked in both
\* directions, appears twice, and a node of another cluster appears too.
C15_Witness ==
  /\ NodesAnswered
  /\ ret.ui.name = Hub
  /\ Len(ret.val) >= 4
  /\ ret.val[2] = ret.val[3]
  /\ ret.val[4] = Recolored(Outsider, "SECONDARY_HIGHLIGHT_COLOR")
  /\ ret.val[4].componentId # ret.ui.componentId

----------------------------------------------------------------------------
(* Properties of the subgraph mode.                                        *)

\* C20: whenever a subgraph visualizer is active the main pointer-event
\* handler is paused, whatever the order of showRelated, focus-node,
\* exit-subgraph and the completion callbacks of dispose.
C20_PausedWhileSubgraphShown == ~subgraphVisualizer.isNull => paused

====
